---- MODULE Spec2Model ----
(***************************************************************************)
(* Real-time relationship-state synchronisation of the friends store       *)
(* (src/src/stores/friendsStore.ts) driven by the auth store               *)
(* (src/src/stores/authStore.ts).                                          *)
(*                                                                         *)
(* The JavaScript event loop runs every callback to its next `await`       *)
(* without interruption, so one action is one such run: a whole store      *)
(* method up to its first await, the resumption after an await, a channel  *)
(* status callback, a timer callback, a realtime event callback.           *)
(*                                                                         *)
(* The supabase client is the environment.  What the model takes from it:  *)
(*   - getSession() yields a session only while a user is signed in, and   *)
(*     may yield none (expired/failed) at any time;                        *)
(*   - channel(...).subscribe(cb) makes a new channel whose cb receives   *)
(*     SUBSCRIBED or CHANNEL_ERROR once for the join, CHANNEL_ERROR once   *)
(*     more if a joined channel drops, and CLOSED once, either when the    *)
(*     server closes it or after removeChannel();                          *)
(*   - a removed channel receives nothing but that CLOSED;                 *)
(*   - realtime events reach the handlers only through a joined channel,   *)
(*     filtered by the user id captured when the channel was built.        *)
(* The `loading` flag of the friends store is not modelled: nothing the    *)
(* synchronisation logic does reads it.                                    *)
(***************************************************************************)
EXTENDS Integers, Sequences, FiniteSets, TLC

----------------------------------------------------------------------------
(* Bounds of the model *)

NumUsers == 2
NumRecords == 2
MaxStarts == 2
MaxToasts == 1
MaxLookups == 2
MaxSends == 2
MaxRows == 2

Users == 1..NumUsers
NoUser == 0
RecIds == 1..NumRecords
Slots == 1..MaxStarts
SendSlots == 1..MaxSends
RowIds == 1..MaxRows

(* Program constants *)

maxRetries == 3
BaseDelay == 1000
MaxDelay == 10000

NoError == "null"
MaxAttemptsMsg == "Maximum connection attempts exceeded"
ChannelErrorMsg == "Connection failed"
NoSessionMsg == "No valid session found for real-time connection"

----------------------------------------------------------------------------
VARIABLES
  authUser,           \* authStore.user: NoUser or a user id
  authSession,        \* authStore.session: 0 (null) or a token version
  isLoading,          \* authStore.isLoading
  profile,            \* authStore.profile: NoUser (null) or the profile's user id
  friends,            \* friendsStore.friends: sequence of friend user ids
  friendRequests,     \* friendsStore.friendRequests: sequence of [id, from]
  realtimeStatus,     \* friendsStore.realtimeStatus
  subscriptions,      \* friendsStore.subscriptions: sequence of <<slot, topic>>
  connectionAttempts, \* friendsStore.connectionAttempts
  lastError,          \* friendsStore.lastError
  att,                \* the startRealtimeSubscriptions() calls still alive and their channel
  timers,             \* pending setTimeout callbacks: <<slot, kind>>
  lookups,            \* handleNewFriendRequest() calls awaiting the sender profile
  hydrations,         \* refreshFriends()/refreshFriendRequests() calls awaiting the store
  toasts,             \* 'New Friend Request' notifications emitted (counted up to MaxToasts)
  friendships,        \* the friendships table of the store: rows [id, user_id, friend_id, status]
  sends,              \* sendFriendRequest() calls in flight, on any client
  lastOp              \* history: per record id, "gone" when the last realtime event
                      \* delivered for it since the cache was last replaced was a delete
                      \* or an accept, else "none"

authVars == <<authUser, authSession, isLoading, profile>>
cacheVars == <<friends, friendRequests>>
chanVars == <<realtimeStatus, subscriptions, connectionAttempts, lastError, att>>
storeVars == <<friendships, sends>>
vars == <<authUser, authSession, isLoading, profile, friends, friendRequests,
          realtimeStatus, subscriptions, connectionAttempts, lastError, att,
          timers, lookups, hydrations, toasts, friendships, sends, lastOp>>

----------------------------------------------------------------------------
(* Helpers *)

Min(S) == CHOOSE x \in S : \A y \in S : x <= y

Pow2(n) == IF n = 0 THEN 1 ELSE IF n = 1 THEN 2 ELSE IF n = 2 THEN 4 ELSE IF n = 3 THEN 8 ELSE 16

(* Mutant: the retry delay does not grow with the attempts *)
RetryDelay_NoBackoff(n) == BaseDelay

(* const retryDelay = Math.min(1000 * (2 ** connectionAttempts), 10000) *)
RetryDelay(n) == IF BaseDelay * Pow2(n) < MaxDelay THEN BaseDelay * Pow2(n) ELSE MaxDelay

Ids(reqs) == {reqs[i].id : i \in 1..Len(reqs)}

(* The requester (user_id) of relationship record r: a row's user_id never  *)
(* changes, and the requesters are other people than the accounts that     *)
(* sign in on this client.                                                 *)
Sender(r) == NumUsers + r

(* The FriendRequest built for record r: { id, from: { id, username }, status: 'pending' } *)
Request(r) == [id |-> r, from |-> Sender(r)]

NoOps == [r \in RecIds |-> "none"]

Unused == [st |-> "unused", user |-> NoUser, delay |-> 0]

Topics == <<"friend-requests", "friendship-updates">>

Tracked(subs) == {subs[i][1] : i \in 1..Len(subs)}

(* supabase.removeChannel(channel) for every channel of `subs`: a live     *)
(* channel starts leaving and will report CLOSED.                          *)
RemoveChannels(at, subs) ==
  [a \in Slots |->
     IF a \in Tracked(subs) /\ at[a].st \in {"joining", "joined", "errored"}
     THEN [at[a] EXCEPT !.st = "leaving"]
     ELSE at[a]]

(* A call that has ended (it threw, or its channel is closed: "removed"    *)
(* when the CLOSED followed a removeChannel, "closed" otherwise) and that no *)
(* pending timer and no tracked channel refers to is forgotten.            *)
GC(at, tm, subs) ==
  [a \in Slots |->
     IF /\ at[a].st \in {"closed", "removed", "threw"}
        /\ \A k \in {"error", "closed"} : <<a, k>> \notin tm
        /\ a \notin Tracked(subs)
     THEN Unused
     ELSE at[a]]

NoSend == [st |-> "unused", user |-> NoUser, target |-> NoUser]

FreeSlots(at) == {a \in Slots : at[a].st = "unused"}

InFlight(at) == {a \in Slots : at[a].st \in {"getSession", "setAuth", "joining"}}

----------------------------------------------------------------------------
Init ==
  /\ authUser = NoUser
  /\ authSession = 0
  /\ isLoading = TRUE
  /\ profile = NoUser
  /\ friends = <<>>
  /\ friendRequests = <<>>
  /\ realtimeStatus = "disconnected"
  /\ subscriptions = <<>>
  /\ connectionAttempts = 0
  /\ lastError = NoError
  /\ att = [a \in Slots |-> Unused]
  /\ timers = {}
  /\ lookups = [r \in RecIds |-> 0]
  /\ hydrations = {}
  /\ toasts = 0
  /\ lastOp = NoOps
  /\ friendships = {}
  /\ sends = [c \in SendSlots |-> NoSend]

----------------------------------------------------------------------------
(* Subscription channel manager *)

(* stopRealtimeSubscriptions(), as a step on the channel variables; `tm`   *)
(* is the set of timers pending after the step.                            *)
stopRealtimeSubscriptions(tm) ==
  /\ att' = GC(RemoveChannels(att, subscriptions), tm, <<>>)
  /\ subscriptions' = <<>>
  /\ realtimeStatus' = "disconnected"
  /\ UNCHANGED <<connectionAttempts, lastError>>

(* Mutant: no check of connectionAttempts against maxRetries *)
startRealtimeSubscriptions_NoCeiling(u, tm) ==
  IF u = NoUser
  THEN /\ att' = GC(att, tm, subscriptions)
       /\ UNCHANGED <<realtimeStatus, subscriptions, connectionAttempts, lastError>>
  ELSE LET cleaned == GC(RemoveChannels(att, subscriptions), tm, <<>>) IN
       /\ FreeSlots(cleaned) # {}
       /\ att' = [cleaned EXCEPT ![Min(FreeSlots(cleaned))] =
                    [st |-> "getSession", user |-> u,
                     delay |-> RetryDelay(connectionAttempts)]]
       /\ subscriptions' = <<>>
       /\ realtimeStatus' = "connecting"
       /\ connectionAttempts' = connectionAttempts + 1
       /\ lastError' = NoError

(* startRealtimeSubscriptions() up to `await supabase.auth.getSession()`,  *)
(* called with useAuthStore.getState().user = u.                           *)
startRealtimeSubscriptions(u, tm) ==
  IF u = NoUser
  THEN /\ att' = GC(att, tm, subscriptions)
       /\ UNCHANGED <<realtimeStatus, subscriptions, connectionAttempts, lastError>>
  ELSE IF connectionAttempts >= maxRetries
  THEN /\ realtimeStatus' = "error"
       /\ lastError' = MaxAttemptsMsg
       /\ att' = GC(att, tm, subscriptions)
       /\ UNCHANGED <<subscriptions, connectionAttempts>>
  ELSE LET cleaned == GC(RemoveChannels(att, subscriptions), tm, <<>>) IN
       /\ FreeSlots(cleaned) # {}
       /\ att' = [cleaned EXCEPT ![Min(FreeSlots(cleaned))] =
                    [st |-> "getSession", user |-> u,
                     delay |-> RetryDelay(connectionAttempts)]]
       /\ subscriptions' = <<>>
       /\ realtimeStatus' = "connecting"
       /\ connectionAttempts' = connectionAttempts + 1
       /\ lastError' = NoError

(* retryConnection(): await get().startRealtimeSubscriptions() *)
retryConnection(u, tm) == startRealtimeSubscriptions(u, tm)

(* The user (or any caller of the store) invokes retryConnection(). *)
RetryConnection ==
  /\ retryConnection(authUser, timers)
  /\ UNCHANGED <<authVars, cacheVars, timers, lookups, hydrations, toasts, lastOp>>
  /\ UNCHANGED storeVars

(* clearError() *)
ClearError ==
  /\ lastError' = NoError
  /\ connectionAttempts' = 0
  /\ UNCHANGED <<authVars, cacheVars, realtimeStatus, subscriptions, att,
                 timers, lookups, hydrations, toasts, lastOp>>
  /\ UNCHANGED storeVars

(* Mutant: stopping the channels also empties the cache *)
StopRealtimeSubscriptions_ResetsStore ==
  /\ stopRealtimeSubscriptions(timers)
  /\ friends' = <<>>
  /\ friendRequests' = <<>>
  /\ UNCHANGED <<authVars, timers, lookups, hydrations, toasts, lastOp>>
  /\ UNCHANGED storeVars

(* A caller of the store invokes stopRealtimeSubscriptions(). *)
StopRealtimeSubscriptions ==
  /\ stopRealtimeSubscriptions(timers)
  /\ UNCHANGED <<authVars, cacheVars, timers, lookups, hydrations, toasts, lastOp>>
  /\ UNCHANGED storeVars

(* `await supabase.auth.getSession()` of call a resumes.  With a session   *)
(* the call goes on to `await supabase.realtime.setAuth(...)`; without one *)
(* it throws and the catch block runs.                                     *)
GetSessionResolves(a, ok) ==
  /\ att[a].st = "getSession"
  /\ ok => authUser # NoUser
  /\ IF ok
     THEN /\ att' = [att EXCEPT ![a].st = "setAuth"]
          /\ UNCHANGED <<realtimeStatus, lastError, timers>>
     ELSE /\ att' = [att EXCEPT ![a].st = "threw"]
          /\ realtimeStatus' = "error"
          /\ lastError' = NoSessionMsg
          /\ timers' = timers \cup {<<a, "error">>}
  /\ UNCHANGED <<authVars, cacheVars, subscriptions, connectionAttempts,
                 lookups, hydrations, toasts, lastOp>>
  /\ UNCHANGED storeVars

(* `await supabase.realtime.setAuth(...)` of call a resumes: both channels *)
(* are built and subscribed, and appended to `subscriptions`.              *)
SetAuthResolves(a) ==
  /\ att[a].st = "setAuth"
  /\ att' = [att EXCEPT ![a].st = "joining"]
  /\ subscriptions' = subscriptions \o <<<<a, Topics[1]>>, <<a, Topics[2]>>>>
  /\ UNCHANGED <<authVars, cacheVars, realtimeStatus, connectionAttempts,
                 lastError, timers, lookups, hydrations, toasts, lastOp>>
  /\ UNCHANGED storeVars

(* Mutant: SUBSCRIBED sets the status but leaves the attempt counter *)
ChannelSubscribed_KeepsAttempts(a) ==
  /\ att[a].st = "joining"
  /\ att' = [att EXCEPT ![a].st = "joined"]
  /\ realtimeStatus' = "connected"
  /\ lastError' = NoError
  /\ UNCHANGED <<authVars, cacheVars, subscriptions, connectionAttempts, timers,
                 lookups, hydrations, toasts, lastOp>>
  /\ UNCHANGED storeVars

(* subscribe callback of call a's friend-requests channel: SUBSCRIBED *)
ChannelSubscribed(a) ==
  /\ att[a].st = "joining"
  /\ att' = [att EXCEPT ![a].st = "joined"]
  /\ realtimeStatus' = "connected"
  /\ connectionAttempts' = 0
  /\ lastError' = NoError
  /\ UNCHANGED <<authVars, cacheVars, subscriptions, timers, lookups,
                 hydrations, toasts, lastOp>>
  /\ UNCHANGED storeVars

(* subscribe callback: CHANNEL_ERROR (failed join, or a joined channel drops) *)
ChannelError(a) ==
  /\ att[a].st \in {"joining", "joined"}
  /\ att' = [att EXCEPT ![a].st = "errored"]
  /\ realtimeStatus' = "error"
  /\ lastError' = ChannelErrorMsg
  /\ timers' = timers \cup {<<a, "error">>}
  /\ UNCHANGED <<authVars, cacheVars, subscriptions, connectionAttempts,
                 lookups, hydrations, toasts, lastOp>>
  /\ UNCHANGED storeVars

(* subscribe callback: CLOSED (server close, or the end of a removeChannel) *)
ChannelClosed(a) ==
  /\ att[a].st \in {"joining", "joined", "errored", "leaving"}
  /\ att' = [att EXCEPT ![a].st = IF att[a].st = "leaving" THEN "removed" ELSE "closed"]
  /\ timers' = timers \cup {<<a, "closed">>}
  /\ UNCHANGED <<authVars, cacheVars, realtimeStatus, subscriptions,
                 connectionAttempts, lastError, lookups, hydrations, toasts, lastOp>>
  /\ UNCHANGED storeVars

(* Mutant: the timer callback does not call retryConnection() *)
TimerFires_NoRetry(a, kind) ==
  /\ <<a, kind>> \in timers
  /\ timers' = timers \ {<<a, kind>>}
  /\ att' = GC(att, timers', subscriptions)
  /\ UNCHANGED <<realtimeStatus, subscriptions, connectionAttempts, lastError>>
  /\ UNCHANGED <<authVars, cacheVars, lookups, hydrations, toasts, lastOp>>
  /\ UNCHANGED storeVars

(* The setTimeout callback scheduled by call a fires:                      *)
(*   "error":  if (get().realtimeStatus === 'error') get().retryConnection() *)
(*   "closed": if (get().realtimeStatus !== 'connected') get().retryConnection() *)
TimerFires(a, kind) ==
  /\ <<a, kind>> \in timers
  /\ timers' = timers \ {<<a, kind>>}
  /\ IF \/ kind = "error" /\ realtimeStatus = "error"
        \/ kind = "closed" /\ realtimeStatus # "connected"
     THEN retryConnection(authUser, timers')
     ELSE /\ att' = GC(att, timers', subscriptions)
          /\ UNCHANGED <<realtimeStatus, subscriptions, connectionAttempts, lastError>>
  /\ UNCHANGED <<authVars, cacheVars, lookups, hydrations, toasts, lastOp>>
  /\ UNCHANGED storeVars

----------------------------------------------------------------------------
(* Relationship query service: hydration *)

RECURSIVE Ascending(_)
Ascending(S) == IF S = {} THEN <<>> ELSE <<Min(S)>> \o Ascending(S \ {Min(S)})

(* A call in flight is [kind, user, stage]: which method, the user it     *)
(* read from the auth store when it began, and which of its two queries    *)
(* it awaits.  The rows the first query returned are not kept: the store's *)
(* answers are unconstrained, so they are drawn when the second answers.   *)

(* refreshFriends() up to its first await, for getState().user = u *)
refreshFriends(u) ==
  IF u = NoUser THEN {}
  ELSE {[kind |-> "friends", user |-> u, stage |-> 1]}

(* refreshFriendRequests() up to its first await, for getState().user = u *)
refreshFriendRequests(u) ==
  IF u = NoUser THEN {}
  ELSE {[kind |-> "requests", user |-> u, stage |-> 1]}

(* A caller of the store (a page, acceptFriendRequest, declineFriendRequest) *)
(* invokes refreshFriends() or refreshFriendRequests().                     *)
RefreshFriends ==
  /\ authUser # NoUser
  /\ hydrations' = hydrations \cup refreshFriends(authUser)
  /\ hydrations' # hydrations
  /\ UNCHANGED <<authVars, cacheVars, chanVars, timers, lookups, toasts, lastOp>>
  /\ UNCHANGED storeVars

RefreshFriendRequests ==
  /\ authUser # NoUser
  /\ hydrations' = hydrations \cup refreshFriendRequests(authUser)
  /\ hydrations' # hydrations
  /\ UNCHANGED <<authVars, cacheVars, chanVars, timers, lookups, toasts, lastOp>>
  /\ UNCHANGED storeVars

(* catch block of refreshFriends(): toast, set({ friends: [] }) *)
RefreshFriendsFailed(fr) == <<>>

(* catch block of refreshFriendRequests(): toast only *)
RefreshFriendRequestsFailed(reqs) == reqs

(* The friendships query of refreshFriends() h answers: an error, no       *)
(* accepted friendship, or some.                                           *)
FriendsQueryAnswers(h, answer) ==
  /\ h \in hydrations /\ h.kind = "friends" /\ h.stage = 1
  /\ IF answer = "error"
     THEN /\ friends' = RefreshFriendsFailed(friends)
          /\ hydrations' = hydrations \ {h}
     ELSE IF answer = "empty"
     THEN /\ friends' = <<>>
          /\ hydrations' = hydrations \ {h}
     ELSE /\ hydrations' = (hydrations \ {h}) \cup {[h EXCEPT !.stage = 2]}
          /\ UNCHANGED friends
  /\ UNCHANGED <<authVars, friendRequests, chanVars, timers, lookups, toasts, lastOp>>
  /\ UNCHANGED storeVars

(* The profiles query of refreshFriends() h answers: an error, or the      *)
(* profiles `found` of friends of h.user.                                  *)
FriendsProfilesAnswer(h, ok, found) ==
  /\ h \in hydrations /\ h.kind = "friends" /\ h.stage = 2
  /\ found \subseteq Users \ {h.user}
  /\ ~ok => found = {}
  /\ friends' = IF ok THEN Ascending(found) ELSE RefreshFriendsFailed(friends)
  /\ hydrations' = hydrations \ {h}
  /\ UNCHANGED <<authVars, friendRequests, chanVars, timers, lookups, toasts, lastOp>>
  /\ UNCHANGED storeVars

(* The rows the store can return for the pending requests addressed to u:  *)
(* `id` is the key of the friendships table.                               *)
PendingRows ==
  {q \in UNION {[1..n -> {Request(r) : r \in RecIds}] : n \in 1..NumRecords} :
     \A i, j \in 1..Len(q) : q[i].id = q[j].id => i = j}

(* The mapping and filter of refreshFriendRequests(): rows whose sender    *)
(* profile was not found get the username 'Unknown' and are dropped.       *)
KnownRequests(rows, found) ==
  LET Known(req) == req.from \in found IN SelectSeq(rows, Known)

(* Mutant: the hydrated rows are appended to the cache instead of replacing it *)
ReplaceRequests_Append(reqs, requests) == reqs \o requests

(* set({ friendRequests: requests }) *)
ReplaceRequests(reqs, requests) == requests

(* The friendships query of refreshFriendRequests() h answers: an error,   *)
(* no pending row, or some.                                                *)
RequestsQueryAnswers(h, answer) ==
  /\ h \in hydrations /\ h.kind = "requests" /\ h.stage = 1
  /\ IF answer = "error"
     THEN /\ friendRequests' = RefreshFriendRequestsFailed(friendRequests)
          /\ hydrations' = hydrations \ {h}
     ELSE IF answer = "empty"
     THEN /\ friendRequests' = ReplaceRequests(friendRequests, <<>>)
          /\ hydrations' = hydrations \ {h}
     ELSE /\ hydrations' = (hydrations \ {h}) \cup {[h EXCEPT !.stage = 2]}
          /\ UNCHANGED friendRequests
  /\ lastOp' = IF answer = "empty" THEN NoOps ELSE lastOp
  /\ UNCHANGED <<authVars, friends, chanVars, timers, lookups, toasts>>
  /\ UNCHANGED storeVars

(* The profiles query of refreshFriendRequests() h answers: an error, or   *)
(* the sender profiles `found`, for the rows `rows` of the first query.    *)
RequestsProfilesAnswer(h, ok, rows, found) ==
  /\ h \in hydrations /\ h.kind = "requests" /\ h.stage = 2
  /\ rows \in PendingRows
  /\ found \subseteq {rows[i].from : i \in 1..Len(rows)}
  /\ ~ok => (found = {} /\ rows = <<Request(1)>>)
  /\ friendRequests' = IF ok THEN ReplaceRequests(friendRequests, KnownRequests(rows, found))
                       ELSE RefreshFriendRequestsFailed(friendRequests)
  /\ hydrations' = hydrations \ {h}
  /\ lastOp' = IF ok THEN NoOps ELSE lastOp
  /\ UNCHANGED <<authVars, friends, chanVars, timers, lookups, toasts>>
  /\ UNCHANGED storeVars

(* removeFriend(f) after its delete was acknowledged *)
RemoveFriendDone(f) ==
  /\ authUser # NoUser
  /\ \E i \in 1..Len(friends) : friends[i] = f
  /\ LET Other(x) == x # f IN friends' = SelectSeq(friends, Other)
  /\ UNCHANGED <<authVars, friendRequests, chanVars, timers, lookups,
                 hydrations, toasts, lastOp>>
  /\ UNCHANGED storeVars

----------------------------------------------------------------------------
(* Change reconciler: the realtime event handlers *)

(* Mutant: the new request is put in front of the list *)
AddRequest_Prepend(reqs, req) ==
  IF \E i \in 1..Len(reqs) : reqs[i].id = req.id THEN reqs ELSE <<req>> \o reqs

(* Mutant: the new request is appended without looking for its id *)
AddRequest_NoDuplicateCheck(reqs, req) == Append(reqs, req)

(* The functional update of handleNewFriendRequest():                      *)
(*   find(req => req.id === newRequest.id) ? state : [...friendRequests, newRequest] *)
AddRequest(reqs, req) ==
  IF \E i \in 1..Len(reqs) : reqs[i].id = req.id THEN reqs ELSE Append(reqs, req)

(* Mutant: the filter keeps nothing *)
RemoveRequest_Clears(reqs, id) == <<>>

(* friendRequests.filter(req => req.id !== id) *)
RemoveRequest(reqs, id) ==
  LET Other(req) == req.id # id IN SelectSeq(reqs, Other)

RECURSIVE SumOver(_, _)
SumOver(f, S) == IF S = {} THEN 0
                 ELSE LET k == CHOOSE x \in S : TRUE IN f[k] + SumOver(f, S \ {k})

(* INSERT callback of call a's channel: handleNewFriendRequest(payload)    *)
(* up to the await of the sender-profile query.  The server-side filter    *)
(* friend_id=eq.<user of call a> selects the rows that reach it.           *)
HandleNewFriendRequest(a, id, status) ==
  /\ att[a].st = "joined"
  /\ IF status # "pending"
     THEN UNCHANGED <<lookups, lastOp>>
     ELSE /\ SumOver(lookups, RecIds) < MaxLookups
          /\ lookups' = [lookups EXCEPT ![id] = @ + 1]
          /\ lastOp' = [lastOp EXCEPT ![id] = "none"]
  /\ UNCHANGED <<authVars, cacheVars, chanVars, timers, hydrations, toasts>>
  /\ UNCHANGED storeVars

(* The sender-profile query of a handleNewFriendRequest() answers:         *)
(* "ok" with the profile, "error", or "none" (no data).                    *)
SenderProfileAnswers(id, result) ==
  /\ lookups[id] > 0
  /\ lookups' = [lookups EXCEPT ![id] = @ - 1]
  /\ IF result = "ok"
     THEN /\ friendRequests' = AddRequest(friendRequests, Request(id))
          /\ toasts' = IF toasts < MaxToasts THEN toasts + 1 ELSE toasts
     ELSE UNCHANGED <<friendRequests, toasts>>
  /\ UNCHANGED <<authVars, friends, chanVars, timers, hydrations, lastOp>>
  /\ UNCHANGED storeVars

(* Mutant: an accepted request triggers the friends refresh but stays in the cache *)
HandleFriendRequestUpdate_KeepsRequest(a, id, status) ==
  /\ att[a].st = "joined"
  /\ IF status = "accepted"
     THEN /\ hydrations' = hydrations \cup refreshFriends(authUser)
          /\ lastOp' = [lastOp EXCEPT ![id] = "gone"]
          /\ UNCHANGED friendRequests
     ELSE UNCHANGED <<friendRequests, hydrations, lastOp>>
  /\ UNCHANGED <<authVars, friends, chanVars, timers, lookups, toasts>>
  /\ UNCHANGED storeVars

(* UPDATE callback of call a's channel: handleFriendRequestUpdate(payload) *)
HandleFriendRequestUpdate(a, id, status) ==
  /\ att[a].st = "joined"
  /\ IF status = "accepted"
     THEN /\ friendRequests' = RemoveRequest(friendRequests, id)
          /\ hydrations' = hydrations \cup refreshFriends(authUser)
          /\ lastOp' = [lastOp EXCEPT ![id] = "gone"]
     ELSE UNCHANGED <<friendRequests, hydrations, lastOp>>
  /\ UNCHANGED <<authVars, friends, chanVars, timers, lookups, toasts>>
  /\ UNCHANGED storeVars

(* DELETE callback of call a's channel: handleFriendRequestDelete(payload) *)
HandleFriendRequestDelete(a, id) ==
  /\ att[a].st = "joined"
  /\ friendRequests' = RemoveRequest(friendRequests, id)
  /\ lastOp' = [lastOp EXCEPT ![id] = "gone"]
  /\ UNCHANGED <<authVars, friends, chanVars, timers, lookups, hydrations, toasts>>
  /\ UNCHANGED storeVars

(* UPDATE callback of the friendship-updates channel of call a:            *)
(*   if (payload.new?.status === 'accepted') get().refreshFriends()        *)
FriendshipUpdated(a, status) ==
  /\ att[a].st = "joined"
  /\ status = "accepted"
  /\ hydrations' = hydrations \cup refreshFriends(authUser)
  /\ UNCHANGED <<authVars, cacheVars, chanVars, timers, lookups, toasts, lastOp>>
  /\ UNCHANGED storeVars

----------------------------------------------------------------------------
(* Session lifecycle controller *)

(* Mutant: the listener does not compare the user id with the previous one *)
AuthListener_NoIdentityCheck(prev, cur) ==
  IF cur # NoUser
  THEN /\ hydrations' = hydrations \cup refreshFriends(cur) \cup refreshFriendRequests(cur)
       /\ startRealtimeSubscriptions(cur, timers)
       /\ UNCHANGED <<cacheVars, lastOp>>
  ELSE IF cur = NoUser /\ prev # NoUser
  THEN /\ att' = GC(RemoveChannels(att, subscriptions), timers, <<>>)
       /\ friends' = <<>>
       /\ friendRequests' = <<>>
       /\ realtimeStatus' = "disconnected"
       /\ subscriptions' = <<>>
       /\ connectionAttempts' = 0
       /\ lastError' = NoError
       /\ lastOp' = NoOps
       /\ UNCHANGED hydrations
  ELSE UNCHANGED <<cacheVars, chanVars, hydrations, lastOp>>

(* Mutant: on logout the listener stops the channel but does not reset the store *)
AuthListener_NoReset(prev, cur) ==
  IF cur # NoUser /\ (prev = NoUser \/ prev # cur)
  THEN /\ hydrations' = hydrations \cup refreshFriends(cur) \cup refreshFriendRequests(cur)
       /\ startRealtimeSubscriptions(cur, timers)
       /\ UNCHANGED <<cacheVars, lastOp>>
  ELSE IF cur = NoUser /\ prev # NoUser
  THEN /\ stopRealtimeSubscriptions(timers)
       /\ UNCHANGED <<cacheVars, hydrations, lastOp>>
  ELSE UNCHANGED <<cacheVars, chanVars, hydrations, lastOp>>

(* useAuthStore.subscribe((state, prevState) => ...), run on every set()   *)
(* of the auth store with prevState.user = prev and state.user = cur.      *)
AuthListener(prev, cur) ==
  IF cur # NoUser /\ (prev = NoUser \/ prev # cur)
  THEN /\ hydrations' = hydrations \cup refreshFriends(cur) \cup refreshFriendRequests(cur)
       /\ startRealtimeSubscriptions(cur, timers)
       /\ UNCHANGED <<cacheVars, lastOp>>
  ELSE IF cur = NoUser /\ prev # NoUser
  THEN \* stopRealtimeSubscriptions(); useFriendsStore.setState(initialState)
       /\ att' = GC(RemoveChannels(att, subscriptions), timers, <<>>)
       /\ friends' = <<>>
       /\ friendRequests' = <<>>
       /\ realtimeStatus' = "disconnected"
       /\ subscriptions' = <<>>
       /\ connectionAttempts' = 0
       /\ lastError' = NoError
       /\ lastOp' = NoOps
       /\ UNCHANGED hydrations
  ELSE UNCHANGED <<cacheVars, chanVars, hydrations, lastOp>>

(* supabase.auth.onAuthStateChange callback with session.user = u (NoUser  *)
(* for no session), up to `await get().fetchUserProfile(...)`.             *)
OnAuthStateChange(u) ==
  /\ authSession' = IF u = NoUser THEN 0 ELSE IF authSession = 1 THEN 2 ELSE 1
  /\ authUser' = u
  /\ isLoading' = (u # NoUser)
  /\ profile' = IF u = NoUser THEN NoUser ELSE profile
  /\ AuthListener(authUser, u)
  /\ UNCHANGED <<timers, lookups, toasts>>
  /\ UNCHANGED storeVars

(* fetchUserProfile(u) ends: set({ profile, isLoading: false }) *)
FetchUserProfileDone(u, ok) ==
  /\ authUser # NoUser
  /\ profile' = IF ok THEN u ELSE NoUser
  /\ isLoading' = FALSE
  /\ isLoading \/ profile' # profile
  /\ UNCHANGED <<authUser, authSession>>
  /\ AuthListener(authUser, authUser')
  /\ UNCHANGED <<timers, lookups, toasts>>
  /\ UNCHANGED storeVars

(* login()/logout()/signup(): set({ isLoading: true }) *)
SetLoading ==
  /\ ~isLoading
  /\ isLoading' = TRUE
  /\ UNCHANGED <<authUser, authSession, profile>>
  /\ AuthListener(authUser, authUser')
  /\ UNCHANGED <<timers, lookups, toasts>>
  /\ UNCHANGED storeVars

----------------------------------------------------------------------------
(* Relationship query service: the mutating calls and the table they write. *)
(* The calls may come from any client; the table takes every insert it is  *)
(* sent or answers with an error.  The realtime events of the other        *)
(* sections are drawn freely and not derived from this table.              *)

(* .or(and(user_id.eq.u,friend_id.eq.t),and(user_id.eq.t,friend_id.eq.u))  *)
(* .in('status', ['pending', 'accepted'])                                  *)
ExistingRelationship(rows, u, t) ==
  {r \in rows : /\ \/ r.user_id = u /\ r.friend_id = t
                   \/ r.user_id = t /\ r.friend_id = u
                /\ r.status \in {"pending", "accepted"}}

FreeRowIds(rows) == RowIds \ {r.id : r \in rows}

(* A client signed in as u calls sendFriendRequest(username of t), up to   *)
(* the await of the profiles query.                                        *)
SendFriendRequest(c, u, t) ==
  /\ sends[c].st = "unused"
  /\ sends' = [sends EXCEPT ![c] = [st |-> "profile", user |-> u, target |-> t]]
  /\ UNCHANGED <<authVars, cacheVars, chanVars, timers, lookups, hydrations,
                 toasts, lastOp, friendships>>

(* The profiles query of call c answers: the target's id, or an error or   *)
(* no such user, which end the call.                                       *)
SendProfileAnswers(c, found) ==
  /\ sends[c].st = "profile"
  /\ sends' = [sends EXCEPT ![c] = IF found THEN [@ EXCEPT !.st = "check"] ELSE NoSend]
  /\ UNCHANGED <<authVars, cacheVars, chanVars, timers, lookups, hydrations,
                 toasts, lastOp, friendships>>

(* The existing-relationship query of call c answers from the table as it  *)
(* is now: an error or a row found end the call, otherwise the insert is   *)
(* sent.                                                                   *)
SendCheckAnswers(c, ok) ==
  /\ sends[c].st = "check"
  /\ sends' = [sends EXCEPT ![c] =
                 IF ok /\ ExistingRelationship(friendships, sends[c].user, sends[c].target) = {}
                 THEN [@ EXCEPT !.st = "insert"]
                 ELSE NoSend]
  /\ UNCHANGED <<authVars, cacheVars, chanVars, timers, lookups, hydrations,
                 toasts, lastOp, friendships>>

(* The insert of call c is answered: the row { user_id, friend_id,         *)
(* status: 'pending' } is in the table, or the table reported an error.    *)
SendInsertAnswers(c, ok) ==
  /\ sends[c].st = "insert"
  /\ ok => FreeRowIds(friendships) # {}
  /\ friendships' =
       IF ok
       THEN friendships \cup {[id |-> Min(FreeRowIds(friendships)),
                               user_id |-> sends[c].user,
                               friend_id |-> sends[c].target,
                               status |-> "pending"]}
       ELSE friendships
  /\ sends' = [sends EXCEPT ![c] = NoSend]
  /\ UNCHANGED <<authVars, cacheVars, chanVars, timers, lookups, hydrations,
                 toasts, lastOp>>

(* The update of acceptFriendRequest(id), called on the client of u:       *)
(*   update({ status: 'accepted' }).eq('id', id).eq('friend_id', u)        *)
AcceptFriendRequestApplied(u, id) ==
  /\ \E r \in friendships : r.id = id /\ r.friend_id = u /\ r.status = "pending"
  /\ friendships' = {IF r.id = id /\ r.friend_id = u
                     THEN [r EXCEPT !.status = "accepted"] ELSE r : r \in friendships}
  /\ UNCHANGED <<authVars, cacheVars, chanVars, timers, lookups, hydrations,
                 toasts, lastOp, sends>>

(* The delete of declineFriendRequest(id), called on the client of u:      *)
(*   delete().eq('id', id).eq('friend_id', u)                              *)
DeclineFriendRequestApplied(u, id) ==
  /\ \E r \in friendships : r.id = id /\ r.friend_id = u
  /\ friendships' = {r \in friendships : ~(r.id = id /\ r.friend_id = u)}
  /\ UNCHANGED <<authVars, cacheVars, chanVars, timers, lookups, hydrations,
                 toasts, lastOp, sends>>

(* The delete of removeFriend(f), called on the client of u: every         *)
(* accepted row between u and f, in either direction.                      *)
RemoveFriendApplied(u, f) ==
  LET gone == {r \in friendships :
                 /\ \/ r.user_id = u /\ r.friend_id = f
                    \/ r.user_id = f /\ r.friend_id = u
                 /\ r.status = "accepted"} IN
  /\ gone # {}
  /\ friendships' = friendships \ gone
  /\ UNCHANGED <<authVars, cacheVars, chanVars, timers, lookups, hydrations,
                 toasts, lastOp, sends>>

----------------------------------------------------------------------------
ChannelNext ==
  \/ RetryConnection
  \/ ClearError
  \/ StopRealtimeSubscriptions
  \/ \E a \in Slots, ok \in BOOLEAN : GetSessionResolves(a, ok)
  \/ \E a \in Slots : SetAuthResolves(a)
  \/ \E a \in Slots : ChannelSubscribed(a)
  \/ \E a \in Slots : ChannelError(a)
  \/ \E a \in Slots : ChannelClosed(a)
  \/ \E a \in Slots, kind \in {"error", "closed"} : TimerFires(a, kind)

AuthNext ==
  \/ \E u \in Users \cup {NoUser} : OnAuthStateChange(u)
  \/ \E u \in Users, ok \in BOOLEAN : FetchUserProfileDone(u, ok)
  \/ SetLoading

Statuses == {"pending", "accepted"}

AllUsers == Users \cup {NoUser}

FriendsNext ==
  \/ RefreshFriends
  \/ \E h \in hydrations, answer \in {"error", "empty", "rows"} : FriendsQueryAnswers(h, answer)
  \/ \E h \in hydrations, ok \in BOOLEAN, found \in SUBSET Users : FriendsProfilesAnswer(h, ok, found)
  \/ \E f \in Users : RemoveFriendDone(f)
  \/ \E a \in Slots, status \in Statuses : FriendshipUpdated(a, status)

RequestsNext ==
  \/ RefreshFriendRequests
  \/ \E h \in hydrations, answer \in {"error", "empty", "rows"} : RequestsQueryAnswers(h, answer)
  \/ \E h \in hydrations, ok \in BOOLEAN, rows \in PendingRows :
       \E found \in SUBSET {rows[i].from : i \in 1..Len(rows)} :
         RequestsProfilesAnswer(h, ok, rows, found)
  \/ \E a \in Slots, id \in RecIds, status \in Statuses :
       HandleNewFriendRequest(a, id, status)
  \/ \E id \in RecIds, result \in {"ok", "error", "none"} : SenderProfileAnswers(id, result)
  \/ \E a \in Slots, id \in RecIds, status \in Statuses : HandleFriendRequestUpdate(a, id, status)
  \/ \E a \in Slots, id \in RecIds : HandleFriendRequestDelete(a, id)

(* The channel manager under sign-in, sign-out, account switch and token   *)
(* refresh                                                                 *)
Next ==
  \/ ChannelNext
  \/ \E u \in AllUsers : OnAuthStateChange(u)

Spec == Init /\ [][Next]_vars

(* The cache under events, hydrations and session changes, over channels   *)
(* that connect                                                            *)
NextCache ==
  \/ RequestsNext
  \/ \E u \in AllUsers \ {authUser} : OnAuthStateChange(u)
  \/ \E a \in Slots : GetSessionResolves(a, TRUE)
  \/ \E a \in Slots : SetAuthResolves(a)
  \/ \E a \in Slots : ChannelSubscribed(a)

SpecCache == Init /\ [][NextCache]_vars

(* Sign-in, sign-out and account switch over hydrations that answer and    *)
(* channels that connect or fail                                           *)
NextLifecycle ==
  \/ \E u \in AllUsers \ {authUser} : OnAuthStateChange(u)
  \/ \E a \in Slots, ok \in BOOLEAN : GetSessionResolves(a, ok)
  \/ \E a \in Slots : SetAuthResolves(a)
  \/ \E a \in Slots : ChannelSubscribed(a)
  \/ \E a \in Slots : ChannelError(a)
  \/ \E h \in hydrations, answer \in {"error", "empty", "rows"} : FriendsQueryAnswers(h, answer)
  \/ \E h \in hydrations, ok \in BOOLEAN, found \in SUBSET Users : FriendsProfilesAnswer(h, ok, found)
  \/ \E h \in hydrations, answer \in {"error", "empty", "rows"} : RequestsQueryAnswers(h, answer)
  \/ \E h \in hydrations, ok \in BOOLEAN, rows \in PendingRows :
       \E found \in SUBSET {rows[i].from : i \in 1..Len(rows)} :
         RequestsProfilesAnswer(h, ok, rows, found)

SpecLifecycle == Init /\ [][NextLifecycle]_vars

(* The session lifecycle controller under every change of the auth store   *)
NextSession ==
  \/ AuthNext
  \/ \E a \in Slots : GetSessionResolves(a, TRUE)
  \/ \E a \in Slots : SetAuthResolves(a)
  \/ \E a \in Slots : ChannelSubscribed(a)

SpecSession == Init /\ [][NextSession]_vars

(* The friendships table under the mutating calls of every client *)
NextStore ==
  \/ \E c \in SendSlots, u \in Users, t \in Users : SendFriendRequest(c, u, t)
  \/ \E c \in SendSlots, found \in BOOLEAN : SendProfileAnswers(c, found)
  \/ \E c \in SendSlots, ok \in BOOLEAN : SendCheckAnswers(c, ok)
  \/ \E c \in SendSlots, ok \in BOOLEAN : SendInsertAnswers(c, ok)
  \/ \E u \in Users, id \in RowIds : AcceptFriendRequestApplied(u, id)
  \/ \E u \in Users, id \in RowIds : DeclineFriendRequestApplied(u, id)
  \/ \E u \in Users, f \in Users : RemoveFriendApplied(u, f)

SpecStore == Init /\ [][NextStore]_vars

(* The cache under sign-in, sign-out and the refreshes a page or a store    *)
(* action asks for, over queries that answer or fail                       *)
NextHydrate ==
  \/ \E u \in Users : authUser = NoUser /\ OnAuthStateChange(u)
  \/ authUser # NoUser /\ OnAuthStateChange(NoUser)
  \/ RefreshFriends
  \/ RefreshFriendRequests
  \/ \E h \in hydrations, answer \in {"error", "empty", "rows"} : FriendsQueryAnswers(h, answer)
  \/ \E h \in hydrations, ok \in BOOLEAN, found \in SUBSET Users : FriendsProfilesAnswer(h, ok, found)
  \/ \E h \in hydrations, answer \in {"error", "empty", "rows"} : RequestsQueryAnswers(h, answer)
  \/ \E h \in hydrations, ok \in BOOLEAN, rows \in PendingRows :
       \E found \in SUBSET {rows[i].from : i \in 1..Len(rows)} :
         RequestsProfilesAnswer(h, ok, rows, found)

SpecHydrate == Init /\ [][NextHydrate]_vars

(* The whole channel manager, with every call of the user and every       *)
(* failure, next to the writers of the cache, for one sign-in of user 1    *)
(* and one pending record                                                  *)
NextFrame ==
  \/ ChannelNext
  \/ authUser = NoUser /\ OnAuthStateChange(1)
  \/ \E h \in hydrations, answer \in {"error", "empty", "rows"} : FriendsQueryAnswers(h, answer)
  \/ \E h \in hydrations, ok \in BOOLEAN, found \in SUBSET Users : FriendsProfilesAnswer(h, ok, found)
  \/ \E h \in hydrations, answer \in {"error", "empty", "rows"} : RequestsQueryAnswers(h, answer)
  \/ \E h \in hydrations, ok \in BOOLEAN :
       RequestsProfilesAnswer(h, ok, <<Request(1)>>, IF ok THEN {Sender(1)} ELSE {})
  \/ \E f \in Users : RemoveFriendDone(f)
  \/ \E a \in Slots : HandleFriendRequestDelete(a, 1)

SpecFrame == Init /\ [][NextFrame]_vars

(* Automatic recovery: one sign-in, no call from the user afterwards, and *)
(* a network that fails an attempt only below the ceiling, so that the     *)
(* third attempt in a row can succeed, and only while the model has room   *)
(* for the call that retries.  Every await resumes, every joining channel  *)
(* reports, every removed channel reports CLOSED and every timer fires.    *)
CanFail(a) ==
  /\ connectionAttempts < maxRetries
  /\ \E b \in Slots \ {a} : att[b].st = "unused"

JoinReports(a) ==
  /\ att[a].st = "joining"
  /\ \/ ChannelSubscribed(a)
     \/ CanFail(a) /\ (ChannelError(a) \/ ChannelClosed(a))

RemovalReports(a) == att[a].st = "leaving" /\ ChannelClosed(a)

NextRecover ==
  \/ \E u \in Users : authUser = NoUser /\ OnAuthStateChange(u)
  \/ \E a \in Slots, ok \in BOOLEAN : (ok \/ CanFail(a)) /\ GetSessionResolves(a, ok)
  \/ \E a \in Slots : SetAuthResolves(a)
  \/ \E a \in Slots : ChannelSubscribed(a)
  \/ \E a \in Slots : CanFail(a) /\ ChannelError(a)
  \/ \E a \in Slots : ((CanFail(a) /\ att[a].st = "joining") \/ att[a].st = "leaving") /\ ChannelClosed(a)
  \/ \E a \in Slots, kind \in {"error", "closed"} : TimerFires(a, kind)

SpecRecover ==
  /\ Init
  /\ [][NextRecover]_vars
  /\ \A a \in Slots :
       /\ WF_vars(\E ok \in BOOLEAN : (ok \/ CanFail(a)) /\ GetSessionResolves(a, ok))
       /\ WF_vars(SetAuthResolves(a))
       /\ WF_vars(JoinReports(a))
       /\ WF_vars(RemovalReports(a))
       /\ \A kind \in {"error", "closed"} : WF_vars(TimerFires(a, kind))

----------------------------------------------------------------------------
(* Properties *)

FriendsCall(u) == [kind |-> "friends", user |-> u, stage |-> 1]
RequestsCall(u) == [kind |-> "requests", user |-> u, stage |-> 1]

NewCalls(at1, at2) == {a \in Slots : at2[a].st = "getSession" /\ at1[a].st # "getSession"}

(* C1: friendRequests never holds two entries with the same relationship-  *)
(* record id, whatever the interleaving of insert/update/delete events,    *)
(* hydrations and sender-profile lookups.                                  *)
C1_NoDuplicateRequests ==
  \A i, j \in 1..Len(friendRequests) :
    friendRequests[i].id = friendRequests[j].id => i = j

(* Two inserts of one id were delivered back-to-back: one lookup has       *)
(* committed and notified, the lookup of the duplicate is still in flight. *)
C1_Witness ==
  \E r \in RecIds :
    /\ r \in Ids(friendRequests)
    /\ lookups[r] > 0
    /\ toasts > 0
    /\ Len(friendRequests) = 1

(* C2: a SUBSCRIBED callback that arrives while the status is disconnected *)
(* (the attempt it belongs to was abandoned by a stop, and no start was    *)
(* issued since) does not set the status to connected.                     *)
C2_StaleDiscard ==
  [][\A a \in Slots :
       (realtimeStatus = "disconnected" /\ ChannelSubscribed(a))
         => realtimeStatus' # "connected"]_vars

(* The steps nobody asks for: resumptions, channel callbacks and timers    *)
AutomaticStep ==
  \/ \E a \in Slots, ok \in BOOLEAN : GetSessionResolves(a, ok)
  \/ \E a \in Slots : SetAuthResolves(a)
  \/ \E a \in Slots : ChannelSubscribed(a)
  \/ \E a \in Slots : ChannelError(a)
  \/ \E a \in Slots : ChannelClosed(a)
  \/ \E a \in Slots, kind \in {"error", "closed"} : TimerFires(a, kind)

(* maxRetries attempts were started since the last success and all failed  *)
Exhausted ==
  /\ connectionAttempts >= maxRetries
  /\ realtimeStatus = "error"
  /\ InFlight(att) = {}

(* C3: once three consecutive attempts have failed, the status is error    *)
(* and no automatic step (timer, callback) changes it or starts another    *)
(* attempt.                                                                *)
C3_RetryCeiling ==
  [][(Exhausted /\ AutomaticStep)
       => /\ realtimeStatus' = "error"
          /\ connectionAttempts' = connectionAttempts
          /\ NewCalls(att, att') = {}]_vars

(* A retry timer fired at the ceiling and was turned down *)
C3_Witness ==
  /\ Exhausted
  /\ lastError = MaxAttemptsMsg
  /\ timers = {}

(* C4: when the last event delivered for record r is a delete or an        *)
(* accept and no lookup for r is pending any more, r is not in             *)
(* friendRequests.                                                         *)
C4_EventOrder ==
  \A r \in RecIds :
    (lastOp[r] = "gone" /\ lookups[r] = 0) => r \notin Ids(friendRequests)

C6_LogoutResets ==
  [][(authUser # NoUser /\ authUser' = NoUser)
       => /\ friends' = <<>>
          /\ friendRequests' = <<>>
          /\ subscriptions' = <<>>
          /\ realtimeStatus' = "disconnected"
          /\ connectionAttempts' = 0
          /\ lastError' = NoError]_vars

(* Signed out with a channel of the session still leaving and a retry      *)
(* timer of a failed attempt still pending, and the store reset.           *)
C6_Witness ==
  /\ authUser = NoUser
  /\ \E a \in Slots : att[a].st = "leaving"
  /\ \E a \in Slots : <<a, "error">> \in timers
  /\ friends = <<>> /\ friendRequests = <<>> /\ subscriptions = <<>>
  /\ realtimeStatus = "disconnected" /\ connectionAttempts = 0 /\ lastError = NoError

(* C7: handling an update event with status accepted for record r removes  *)
(* r from friendRequests in that step, keeps the other requests in their   *)
(* order, and starts refreshFriends() for the signed-in user.              *)
C7_AcceptClearsPending ==
  [][\A a \in Slots, r \in RecIds :
       HandleFriendRequestUpdate(a, r, "accepted")
         => /\ r \notin Ids(friendRequests')
            /\ Ids(friendRequests') = Ids(friendRequests) \ {r}
            /\ Len(friendRequests') = Cardinality({i \in 1..Len(friendRequests) : friendRequests[i].id # r})
            /\ \A i, j \in 1..Len(friendRequests') :
                 i < j => \E k, l \in 1..Len(friendRequests) :
                            /\ k < l
                            /\ friendRequests[k] = friendRequests'[i]
                            /\ friendRequests[l] = friendRequests'[j]
            /\ authUser # NoUser => FriendsCall(authUser) \in hydrations']_vars

(* An accept for r was the last event for r, r is gone, another request    *)
(* is still listed and the friends refresh is in flight.                   *)
C7_Witness ==
  \E r \in RecIds :
    /\ lastOp[r] = "gone"
    /\ r \notin Ids(friendRequests)
    /\ Len(friendRequests) >= 1
    /\ authUser # NoUser
    /\ FriendsCall(authUser) \in hydrations

(* The effect of one event on friendRequests *)
ApplyEvent(reqs, op, r) ==
  IF op = "insert" THEN AddRequest(reqs, Request(r)) ELSE RemoveRequest(reqs, r)

(* C8: in every reachable cache, applying an event (insert, accept,        *)
(* delete) a second time changes nothing.                                  *)
C8_Idempotent ==
  \A op \in {"insert", "accept", "delete"}, r \in RecIds :
    ApplyEvent(ApplyEvent(friendRequests, op, r), op, r) = ApplyEvent(friendRequests, op, r)

(* A duplicate insert is about to be applied to a cache of two requests *)
C8_Witness ==
  /\ Len(friendRequests) >= 2
  /\ toasts > 0
  /\ \E r \in Ids(friendRequests) : lookups[r] > 0

(* C9: a call of stopRealtimeSubscriptions() leaves the status             *)
(* disconnected, no channel tracked and connectionAttempts = 0.            *)
C9_StopResets ==
  [][StopRealtimeSubscriptions
       => /\ realtimeStatus' = "disconnected"
          /\ subscriptions' = <<>>
          /\ connectionAttempts' = 0]_vars

(* C10: a retry timer scheduled by the CLOSED of a channel that a stop     *)
(* removed, firing while the status is still disconnected (no start or     *)
(* retry since the stop), starts no connection attempt.                    *)
C10_StopCancelsRetries ==
  [][\A a \in Slots :
       (realtimeStatus = "disconnected" /\ att[a].st = "removed" /\ TimerFires(a, "closed"))
         => /\ realtimeStatus' # "connecting"
            /\ NewCalls(att, att') = {}]_vars

(* C11: at the retry ceiling (three attempts counted, status error,        *)
(* nothing in flight) one call of retryConnection() resets the counter     *)
(* and starts an attempt: the status becomes connecting.                   *)
C11_RetryResets ==
  [][(Exhausted /\ RetryConnection)
       => /\ realtimeStatus' = "connecting"
          /\ connectionAttempts' < maxRetries
          /\ NewCalls(att, att') # {}]_vars

(* C12: the friendships table never holds two rows between the same        *)
(* unordered pair of two users, whatever the interleaving of the           *)
(* sendFriendRequest calls of the clients.                                 *)
C12_NoDuplicateRelationship ==
  \A r1, r2 \in friendships :
    (r1.user_id # r1.friend_id /\ {r1.user_id, r1.friend_id} = {r2.user_id, r2.friend_id})
      => r1 = r2

(* C13: the status leaves disconnected for connecting only when no         *)
(* hydration call of the signed-in user is still in flight: the channel    *)
(* is started after the hydration of friends and requests has finished.    *)
C13_StartAfterHydration ==
  [][(realtimeStatus = "disconnected" /\ realtimeStatus' = "connecting")
       => ~ \E h \in hydrations' : h.user = authUser']_vars

(* C14: when the sender-profile lookup of a pending insert for record r    *)
(* fails, r is in friendRequests afterwards and no notification is         *)
(* emitted.                                                                *)
C14_LookupFailureStillAdds ==
  [][\A r \in RecIds :
       SenderProfileAnswers(r, "error")
         => (r \in Ids(friendRequests') /\ toasts' = toasts)]_vars

(* C15: every change of realtimeStatus is an allowed transition or goes    *)
(* to disconnected; in particular never disconnected or error ->           *)
(* connected, and never disconnected -> error.                             *)
C15_AllowedTransitions ==
  [][(realtimeStatus' # realtimeStatus)
       => \/ <<realtimeStatus, realtimeStatus'>> \in
               {<<"disconnected", "connecting">>, <<"connecting", "connected">>,
                <<"connecting", "error">>, <<"connected", "error">>,
                <<"error", "connecting">>}
          \/ realtimeStatus' = "disconnected"]_vars

(* The calls whose channel is being opened or is open *)
Live(at) == {a \in Slots : at[a].st \in {"getSession", "setAuth", "joining", "joined"}}

(* C16: startRealtimeSubscriptions() called while the status is            *)
(* connecting or connected for the signed-in user changes neither the      *)
(* status, nor the tracked channels, nor connectionAttempts, and leaves    *)
(* the calls and channels as they are.                                     *)
C16_StartIsNoOp ==
  [][(/\ realtimeStatus \in {"connecting", "connected"}
      /\ authUser # NoUser
      /\ Live(att) # {}
      /\ \A a \in Live(att) : att[a].user = authUser
      /\ RetryConnection)
       => UNCHANGED <<realtimeStatus, subscriptions, connectionAttempts, att>>]_vars

(* C17: every step that leaves realtimeStatus connected leaves             *)
(* connectionAttempts = 0.                                                 *)
C17_ConnectedResetsAttempts ==
  [][(realtimeStatus' = "connected") => (connectionAttempts' = 0)]_vars

(* Connected through a retry: the call that joined was started with two    *)
(* attempts already counted, and the counter is back at 0.                 *)
C17_Witness ==
  /\ realtimeStatus = "connected"
  /\ connectionAttempts = 0
  /\ \E a \in Slots : att[a].st = "joined" /\ att[a].delay = RetryDelay(2)

C20_FailedHydrationKeepsCache ==
  [][(\E h \in hydrations :
        \/ FriendsQueryAnswers(h, "error")
        \/ FriendsProfilesAnswer(h, FALSE, {})
        \/ RequestsQueryAnswers(h, "error")
        \/ RequestsProfilesAnswer(h, FALSE, <<Request(1)>>, {}))
     => (friends' = friends /\ friendRequests' = friendRequests)]_vars

Recipient(a) == att[a].user

(* C22: an insert event whose recipient is not the signed-in user, or      *)
(* whose status is not pending, is ignored: the handler returns at once,   *)
(* so the cache is unchanged, no notification is emitted and no sender     *)
(* lookup is begun that would do either later.                             *)
C22_ForeignInsertIgnored ==
  [][\A id \in RecIds, status \in Statuses :
       (/\ \E a \in Slots : HandleNewFriendRequest(a, id, status)
        /\ \/ status # "pending"
           \/ \A a \in Slots : att[a].st = "joined" => Recipient(a) # authUser)
         => UNCHANGED <<friends, friendRequests, toasts, lookups>>]_vars

(* C23: a delete event for record r removes the request with id r if it    *)
(* is listed and nothing else: the other requests stay, in their order; a  *)
(* delete for an id that is not listed leaves friendRequests as it is;     *)
(* and friends is never changed by a delete event.                         *)
C23_DeleteRemovesOnlyThat ==
  [][\A a \in Slots, r \in RecIds :
       HandleFriendRequestDelete(a, r)
         => /\ friends' = friends
            /\ r \notin Ids(friendRequests) => friendRequests' = friendRequests
            /\ r \notin Ids(friendRequests')
            /\ Len(friendRequests') =
                 Cardinality({i \in 1..Len(friendRequests) : friendRequests[i].id # r})
            /\ \A i \in 1..Len(friendRequests') :
                 \E k \in 1..Len(friendRequests) : friendRequests[k] = friendRequests'[i]
            /\ \A i, j \in 1..Len(friendRequests') :
                 i < j => \E k, l \in 1..Len(friendRequests) :
                            /\ k < l
                            /\ friendRequests[k] = friendRequests'[i]
                            /\ friendRequests[l] = friendRequests'[j]]_vars

(* Record 1 was removed by the last event delivered for it while record 2, *)
(* which no event has touched, is still listed and no lookup is pending.   *)
C23_Witness ==
  /\ lastOp[1] = "gone"
  /\ lastOp[2] = "none"
  /\ friendRequests = <<Request(2)>>
  /\ \A r \in RecIds : lookups[r] = 0
  /\ toasts = 0

(* C24: whenever no user is signed in (the logout handler has run), no     *)
(* channel is tracked in subscriptions, no channel is joining or joined,   *)
(* and realtimeStatus is disconnected; also when a                         *)
(* startRealtimeSubscriptions() call was awaiting the session at logout.   *)
C24_LogoutCleansUp ==
  authUser = NoUser
    => /\ realtimeStatus = "disconnected"
       /\ subscriptions = <<>>
       /\ \A a \in Slots : att[a].st \notin {"joining", "joined"}

(* C25: whenever realtimeStatus is error, lastError holds a reason: no     *)
(* operation, clearError() included, leaves the status at error with       *)
(* lastError = null.                                                       *)
C25_ErrorHasReason ==
  realtimeStatus = "error" => lastError # NoError

(* The steps that write the cache: the event handlers, the hydration       *)
(* answers, removeFriend and the reset on logout                           *)
CacheWriterStep ==
  \/ \E r \in RecIds, result \in {"ok", "error", "none"} : SenderProfileAnswers(r, result)
  \/ \E a \in Slots, r \in RecIds, status \in Statuses : HandleFriendRequestUpdate(a, r, status)
  \/ \E a \in Slots, r \in RecIds : HandleFriendRequestDelete(a, r)
  \/ \E h \in hydrations, answer \in {"error", "empty", "rows"} :
       FriendsQueryAnswers(h, answer) \/ RequestsQueryAnswers(h, answer)
  \/ \E h \in hydrations, ok \in BOOLEAN, found \in SUBSET Users : FriendsProfilesAnswer(h, ok, found)
  \/ \E h \in hydrations, ok \in BOOLEAN, rows \in PendingRows :
       \E found \in SUBSET {rows[i].from : i \in 1..Len(rows)} :
         RequestsProfilesAnswer(h, ok, rows, found)
  \/ \E f \in Users : RemoveFriendDone(f)
  \/ authUser # NoUser /\ authUser' = NoUser

(* C26: the channel manager never writes the cache: a call of              *)
(* retryConnection (startRealtimeSubscriptions), stopRealtimeSubscriptions *)
(* or clearError, a resumption, a channel status callback (SUBSCRIBED,     *)
(* CHANNEL_ERROR, CLOSED) and a retry timer leave friends and              *)
(* friendRequests unchanged; and a step that changes either of them is a   *)
(* step of an event handler, a hydration, removeFriend or the logout       *)
(* reset.                                                                  *)
C26_ManagerKeepsCache ==
  /\ [][(RetryConnection \/ StopRealtimeSubscriptions \/ ClearError \/ AutomaticStep)
          => UNCHANGED <<friends, friendRequests>>]_vars
  /\ [][(<<friends, friendRequests>>' # <<friends, friendRequests>>) => CacheWriterStep]_vars

(* The manager went through three failed attempts up to the ceiling and    *)
(* was then stopped by a caller, over a cache hydrated with a friend and a *)
(* request.                                                                *)
C26_Witness ==
  /\ authUser # NoUser
  /\ friends = <<2>>
  /\ friendRequests = <<Request(1)>>
  /\ realtimeStatus = "disconnected"
  /\ connectionAttempts = maxRetries
  /\ lastError = MaxAttemptsMsg
  /\ hydrations = {}

(* C27: the cache holds only data fetched for the signed-in user: an       *)
(* answer to a refreshFriends(), refreshFriendRequests() or sender lookup  *)
(* begun for a user who has since signed out writes nothing, so while      *)
(* nobody is signed in friends and friendRequests are empty.               *)
C27_CacheOfCurrentUser ==
  authUser = NoUser => (friends = <<>> /\ friendRequests = <<>>)

(* C28: while realtimeStatus is connected the friend-requests channel is   *)
(* subscribed, or its loss is being handled: when no channel is joined,    *)
(* a retry timer is pending or an attempt is in flight, so that the status *)
(* does not stay connected with no live channel.                           *)
C28_ConnectedHasChannel ==
  realtimeStatus = "connected"
    => \/ \E a \in Slots : att[a].st = "joined"
       \/ timers # {}
       \/ InFlight(att) # {}

(* C29: subscriptions never tracks more than the two channels              *)
(* (friend-requests, friendship-updates) of one start, and both belong to  *)
(* the same start, also when two startRealtimeSubscriptions() calls        *)
(* overlap at the session await.                                           *)
C29_OneLogicalChannel ==
  /\ Len(subscriptions) <= 2
  /\ Cardinality(Tracked(subscriptions)) <= 1

(* C30: the new-request notification is emitted at most once per record   *)
(* id: when the handling of an insert for record r commits while r is      *)
(* already in friendRequests (a duplicate delivery, or a request already   *)
(* hydrated), no notification is emitted.                                  *)
C30_NoToastForDuplicate ==
  [][\A r \in RecIds :
       (SenderProfileAnswers(r, "ok") /\ r \in Ids(friendRequests))
         => toasts' = toasts]_vars

====
